---- MODULE Spec2Model ----
(***************************************************************************)
(* A model of src/index.js: the retry wrapper generateContentWithRetry and *)
(* the App component's two pipelines, handleFileDrop (ingestion) and       *)
(* handleMatch (scoring), over the shared component state.                 *)
(*                                                                         *)
(* Two specifications share the variables:                                 *)
(*   RetrySpec  one caller invoking generateContentWithRetry, step by step *)
(*              (service call, catch, sleep, re-raise);                    *)
(*   Spec       the App: event handlers started by the user and their      *)
(*              continuations after every await;                           *)
(*   FilterSpec the filter inputs and the filtered view computed from the  *)
(*              ProfileSet and the filters (filteredResumes).              *)
(***************************************************************************)
EXTENDS Integers, Sequences, FiniteSets, TLC

\* JavaScript null / undefined where a string is expected (an absent field of
\* the parsed response): a value no string equals.
Null == <<"undefined">>

Range(s) == {s[k] : k \in 1..Len(s)}

(***************************************************************************)
(* Strings are sequences of tokens (characters, or whole words where the   *)
(* code never looks inside them); String.includes is membership of a       *)
(* token, String.toLowerCase maps every token, + is concatenation.         *)
(***************************************************************************)
toLowerCaseTok(t) ==
  CASE t = "RESOURCE_EXHAUSTED" -> "resource_exhausted"
    [] t = "Too Many Requests"  -> "too many requests"
    [] t = "Internal"           -> "internal"
    [] t = "A" -> "a"
    [] t = "B" -> "b"
    [] t = "L" -> "l"
    [] t = "X" -> "x"
    [] t = "C" -> "c"
    [] t = "D" -> "d"
    [] t = "G" -> "g"
    [] t = "Q" -> "q"
    [] t = ".PDF" -> ".pdf"
    [] t = ".ZIP" -> ".zip"
    [] OTHER -> t

toLowerCase(str) == [k \in 1..Len(str) |-> toLowerCaseTok(str[k])]

\* String.endsWith for a suffix that is one token (a file extension).
endsWith(str, tok) == Len(str) > 0 /\ str[Len(str)] = tok

includes(msg, tok) == \E k \in 1..Len(msg) : msg[k] = tok

\* A thrown value: isError is `e instanceof Error`; origin tells the error
\* objects of the service from the one the wrapper constructs (line 116).
Thrown(isErr, msg, origin) == [isError |-> isErr, message |-> msg, origin |-> origin]

E429         == Thrown(TRUE,  <<"429", "Too Many Requests">>, "service")
EResExhUpper == Thrown(TRUE,  <<"RESOURCE_EXHAUSTED">>, "service")
E500         == Thrown(TRUE,  <<"500", "Internal">>, "service")
ENonError429 == Thrown(FALSE, <<"429">>, "service")   \* `throw "429"`, not an Error

ServiceErrors == {E429, EResExhUpper, E500, ENonError429}

\* Nothing was thrown.
NoError == Thrown(FALSE, <<>>, "none")

\* line 116: new Error("API call failed after multiple retries.")
ExhaustedError == Thrown(TRUE, <<"API call failed after multiple retries.">>, "wrapper")

(***************************************************************************)
(* Bounds and program constants                                            *)
(***************************************************************************)
DefaultRetries      == 4      \* line 95: retries = 4
DefaultInitialDelay == 2000   \* line 95: initialDelay = 2000
JitterRange         == 1000   \* line 106: Math.random() * 1000
PacingDelay         == 1000   \* lines 276, 370: setTimeout(resolve, 1000)

MaxRetries == 4               \* retry budgets tried: 0..MaxRetries
MaxCalls   == 2               \* wrapper calls made one after the other

RetryBudgets  == 0..MaxRetries
InitialDelays == {500, DefaultInitialDelay}
Jitters       == {0, JitterRange - 1}

(***************************************************************************)
(* Files, archive entries and what the service extracts from them          *)
(***************************************************************************)
\* line 231
supportedExtensions == {".pdf", ".doc", ".docx", ".xls", ".xlsx"}

\* A parsed response (line 203): the fields of resumeSchema the code reads
\* by name.  name and email feed the identifier (line 263), age, appliedFor
\* and governorate the filters (lines 386-404).  An absent string field is
\* Null, an absent age is NoAge; skills and experienceSummary are present in
\* every response modelled here.
NoAge == <<>>
Parsed(name, email, age, appliedFor, governorate) ==
  [name |-> name, email |-> email, age |-> age, appliedFor |-> appliedFor,
   governorate |-> governorate]

\* A File: its name, its declared media type, the fields the service reports
\* for it (parsedData, line 203), and for an archive its entries and whether
\* JSZip can open it.
MkFile(name, type, parsed) ==
  [name |-> name, type |-> type, parsed |-> parsed, entries |-> <<>>, corrupt |-> FALSE]
MkZip(name, entries, corrupt) ==
  [name |-> name, type |-> <<"application/zip">>, parsed |-> Parsed(Null, Null, NoAge, Null, Null),
   entries |-> entries, corrupt |-> corrupt]
MkEntry(name, dir, parsed) == [name |-> name, dir |-> dir, parsed |-> parsed]

Dev   == <<"D", "e", "v">>
Qa    == <<"Q", "A">>
Cairo == <<"C", "a", "i", "r", "o">>
Giza  == <<"G", "i", "z", "a">>

PAl      == Parsed(<<"A", "l">>, <<"a", "@", "x">>, <<25>>, Dev, Cairo)
PAlUpper == Parsed(<<"A", "L">>, <<"A", "@", "X">>, <<30>>, Dev, Cairo)
PBo      == Parsed(<<"B", "o">>, Null, NoAge, Qa, Giza)
PNone    == Parsed(Null, Null, NoAge, Null, Null)

FA   == MkFile(<<"a", ".pdf">>,  <<"application/pdf">>, PAl)
FA2  == MkFile(<<"a2", ".PDF">>, <<"application/pdf">>, PAlUpper)
FB   == MkFile(<<"b", ".docx">>, <<"application/msword">>, PBo)
FTxt == MkFile(<<"notes", ".txt">>, <<"text/plain">>, PNone)

ZipOk  == MkZip(<<"cvs", ".ZIP">>,
                <<MkEntry(<<"resume1", ".pdf">>, FALSE, PNone),
                  MkEntry(<<"dir/">>, TRUE, PNone),
                  MkEntry(<<"notes", ".txt">>, FALSE, PNone),
                  MkEntry(<<"resume2", ".docx">>, FALSE, PNone)>>, FALSE)
ZipBad == MkZip(<<"bad", ".zip">>, <<>>, TRUE)

\* The file lists the user drops or selects.
InputLists ==
  { <<FA, FA2, FB>>, <<FA2, FA>>, <<ZipOk, FTxt>>, <<ZipBad, FA>> }

JobDescriptions == { <<>>, <<"Senior Go engineer">> }

\* What the scoring response carries in matchScore (line 349): a number, or
\* nothing when the field is missing.  <<>> is null / undefined.
NoScore == <<>>
Scores == { <<40>>, <<90>> }

MaxRuns   == 2     \* handleFileDrop invocations
MaxPasses == 2     \* handleMatch invocations that pass validation
MaxStarts == 3     \* invocations of either handler
MaxDrift  == 0     \* milliseconds the clock may advance between timers

Runs   == 1..MaxRuns
Passes == 1..MaxPasses

VARIABLES
  \* ---- one generateContentWithRetry call ----
  rpc,           \* "idle" | "calling" | "sleeping" | "returned" | "raised"
  retries,       \* parameter
  initialDelay,  \* parameter
  attempt,       \* local `attempt`
  delay,         \* local `delay`
  raised,        \* the value the call threw to its caller, or NoError
  svcCalls,      \* history: ai.models.generateContent invocations of this call
  svcErrs,       \* history: what the service threw, in order, in this call
  sleeps,        \* history: the setTimeout durations of this call, [base, jitter]
  calls          \* history: wrapper calls started so far

retryVars == <<rpc, retries, initialDelay, attempt, delay, raised,
               svcCalls, svcErrs, sleeps, calls>>

VARIABLES
  \* ---- the App component ----
  ai,             \* TRUE iff the GoogleGenAI client was constructed (lines 82-88)
  resumes,        \* useState([])          the ProfileSet
  isLoading,      \* useState(false)
  error,          \* useState('')
  statusMessage,  \* useState('')
  jobDescription, \* useState('')
  blobUrls,       \* blobUrlsRef.current
  revoked,        \* the object URLs revoked so far
  created,        \* the number of object URLs created so far
  now,            \* Date.now()
  runs,           \* the handleFileDrop invocations: locals and position
  passes,         \* the handleMatch invocations: closure, locals and position
  overlapped,     \* history: some run was started while another was active
  filters         \* useState({ job: '', governorate: '', age: '' })

appVars == <<ai, resumes, isLoading, error, statusMessage, jobDescription,
             blobUrls, revoked, created, now, runs, passes, overlapped, filters>>

vars == <<retryVars, appVars>>


(***************************************************************************)
(* generateContentWithRetry, lines 95-117                                  *)
(***************************************************************************)
\* line 103
isRateLimitError_CaseSensitive(e) ==
  e.isError /\ (includes(e.message, "429")
                \/ includes(e.message, "resource_exhausted"))
isRateLimitError(e) ==
  e.isError /\ (includes(e.message, "429")
                \/ includes(toLowerCase(e.message), "resource_exhausted"))

\* line 98: while (attempt < retries)
LoopGuard_Inclusive(att, R) == att <= R
LoopGuard(att, R) == att < R

\* line 105: if (isRateLimitError && attempt < retries)
ShouldRetry_AnyError(e, att, R) == att < R
ShouldRetry(e, att, R) == isRateLimitError(e) /\ att < R

\* line 109: delay *= 2
NextDelay_Increment(d) == d + DefaultInitialDelay
NextDelay(d) == d * 2

\* line 112: throw e
Rethrow_Exhausted(e) == ExhaustedError
Rethrow(e) == e

\* The head of the while loop, entered with `att` failures so far: either the
\* next service call is issued (line 100) or the loop is left (line 116).
LoopHead(att, R) ==
  IF LoopGuard(att, R)
    THEN /\ rpc' = "calling"
         /\ svcCalls' = svcCalls + 1
         /\ raised' = NoError
    ELSE /\ rpc' = "raised"
         /\ raised' = ExhaustedError
         /\ UNCHANGED svcCalls

\* lines 95-100: the call is made and runs to its first await.
RetryCall(R, D) ==
  /\ rpc = "idle"
  /\ calls < MaxCalls
  /\ calls' = calls + 1
  /\ retries' = R
  /\ initialDelay' = D
  /\ attempt' = 0
  /\ delay' = D
  /\ svcErrs' = <<>>
  /\ sleeps' = <<>>
  /\ IF LoopGuard(0, R)
       THEN rpc' = "calling" /\ svcCalls' = 1 /\ raised' = NoError
       ELSE rpc' = "raised" /\ svcCalls' = 0 /\ raised' = ExhaustedError
  /\ UNCHANGED appVars

\* line 100: the service call resolves; the wrapper returns its response.
ServiceResolve ==
  /\ rpc = "calling"
  /\ rpc' = "returned"
  /\ UNCHANGED <<retries, initialDelay, attempt, delay, raised,
                 svcCalls, svcErrs, sleeps, calls>>
  /\ UNCHANGED appVars

\* lines 101-113: the service call rejects with e.
ServiceReject(e) ==
  /\ rpc = "calling"
  /\ attempt' = attempt + 1
  /\ svcErrs' = Append(svcErrs, e)
  /\ IF ShouldRetry(e, attempt + 1, retries)
       THEN /\ \E jitter \in Jitters :
                 sleeps' = Append(sleeps, [base |-> delay, jitter |-> jitter])
            /\ rpc' = "sleeping"
            /\ UNCHANGED raised
       ELSE /\ rpc' = "raised"
            /\ raised' = Rethrow(e)
            /\ UNCHANGED sleeps
  /\ UNCHANGED <<retries, initialDelay, delay, svcCalls, calls>>
  /\ UNCHANGED appVars

\* lines 108-109, then the loop head again: the timer fires, delay doubles.
SleepDone ==
  /\ rpc = "sleeping"
  /\ delay' = NextDelay(delay)
  /\ LoopHead(attempt, retries)
  /\ UNCHANGED <<retries, initialDelay, attempt, svcErrs, sleeps, calls>>
  /\ UNCHANGED appVars

\* The caller takes the result; the next call may begin.
RetryConsume ==
  /\ rpc \in {"returned", "raised"}
  /\ rpc' = "idle"
  /\ UNCHANGED <<retries, initialDelay, attempt, delay, raised,
                 svcCalls, svcErrs, sleeps, calls>>
  /\ UNCHANGED appVars

RetryIdle ==
  /\ rpc = "idle"
  /\ retries = DefaultRetries
  /\ initialDelay = DefaultInitialDelay
  /\ attempt = 0
  /\ delay = DefaultInitialDelay
  /\ raised = NoError
  /\ svcCalls = 0
  /\ svcErrs = <<>>
  /\ sleeps = <<>>
  /\ calls = 0

(***************************************************************************)
(* The App component: messages                                             *)
(***************************************************************************)
\* The error texts of the translations table (lines 25, 42, 44) with what
\* the handlers add to them (lines 207-210, 352-355).
Msg(kind, about, rateLimit) == [kind |-> kind, about |-> about, rateLimit |-> rateLimit]
NoMsg       == Msg("", <<>>, FALSE)
ApiKeyError == Msg("apiKeyError", <<>>, FALSE)
MatchError  == Msg("matchError", <<>>, FALSE)
AnalysisError(fileName, e) ==
  Msg("analysisError", fileName, e.isError /\ includes(e.message, "429"))
MatchingError(name, e) ==
  Msg("matchingError", name, e.isError /\ includes(e.message, "429"))

\* The status texts (lines 19-27).
Status(kind, a, b) == [kind |-> kind, a |-> a, b |-> b]
NoStatus                          == Status("", 0, 0)
PrepareFiles                      == Status("prepareFiles", 0, 0)
AnalyzingStatus_Remaining(processed, total) ==
  Status("analyzingStatus", total - processed + 1, total)
AnalyzingStatus(processed, total) == Status("analyzingStatus", processed, total)
AnalysisComplete(unique, dup)     == Status("analysisComplete", unique, dup)
MatchingStatus(processed, total)  == Status("matchingStatus", processed, total)
MatchComplete                     == Status("matchComplete", 0, 0)

\* What analyzeResume and the scoring try block can catch besides the errors
\* of the service: JSON.parse throwing (lines 203, 349) and the FileReader
\* rejecting with its event (line 182).
ESyntax == Thrown(TRUE,  <<"Unexpected token">>, "JSON.parse")
ERead   == Thrown(FALSE, <<"error">>, "FileReader")

AnalyzeErrors == ServiceErrors \cup {ESyntax, ERead}
ScoreErrors   == ServiceErrors \cup {ESyntax}

(***************************************************************************)
(* handleFileDrop, lines 216-285, with analyzeResume, lines 187-214        *)
(***************************************************************************)
\* The locals of one invocation.  i counts documents from 1 (the code's i + 1).
\* History: the documents analyzeResume was called for (attempted), those it
\* returned a profile for (extracted), those setResumes appended (appended),
\* the pacing waits begun (paced), the document it returned null for (failed).
IdleRun ==
  [pc |-> "idle", files |-> <<>>, allFiles |-> <<>>, i |-> 0,
   analyzedResumesCount |-> 0, uniqueIdentifiers |-> {}, timer |-> 0,
   attempted |-> <<>>, extracted |-> <<>>, appended |-> <<>>, paced |-> 0,
   failed |-> 0]

\* The closure and locals of one handleMatch invocation.  History: the
\* profiles a scoring call was made for, the scores assigned so far, the
\* pacing waits begun.
IdlePass ==
  [pc |-> "idle", resumes |-> <<>>, i |-> 0, timer |-> 0,
   scoreCalls |-> <<>>, assigned |-> <<>>, paced |-> 0]

ActiveRun(r)  == runs[r].pc \in {"preparing", "extracting", "pacing"}
ActivePass(m) == passes[m].pc \in {"scoring", "pacing"}
AnyActive     == (\E r \in Runs : ActiveRun(r)) \/ (\E m \in Passes : ActivePass(m))

\* lines 234, 237, 243
IsZip(name)       == endsWith(toLowerCase(name), ".zip")
IsSupported_CaseSensitive(name) == \E ext \in supportedExtensions : endsWith(name, ext)
IsSupported(name) == \E ext \in supportedExtensions : endsWith(toLowerCase(name), ext)

\* lines 236-242: the entries of an opened archive that become documents.
RECURSIVE ZipDocuments(_)
ZipDocuments(entries) ==
  IF entries = <<>> THEN <<>>
  ELSE LET en == Head(entries)
       IN (IF ~en.dir /\ IsSupported(en.name)
             THEN <<MkFile(en.name, <<>>, en.parsed)>>
             ELSE <<>>) \o ZipDocuments(Tail(entries))

\* lines 230-246: allFiles, when every archive opens.
RECURSIVE ExpandFiles(_)
ExpandFiles(files) ==
  IF files = <<>> THEN <<>>
  ELSE LET file == Head(files)
       IN (IF IsZip(file.name) THEN ZipDocuments(file.entries)
           ELSE IF IsSupported(file.name) THEN <<file>>
           ELSE <<>>) \o ExpandFiles(Tail(files))

HasZip(files)   == \E k \in 1..Len(files) : IsZip(files[k].name)
\* line 235: JSZip.loadAsync rejects
ZipFails(files) == \E k \in 1..Len(files) : IsZip(files[k].name) /\ files[k].corrupt

\* `x || ''`
OrEmpty(x) == IF x = Null THEN <<>> ELSE x

\* line 263
Identifier_CaseSensitive(p) == OrEmpty(p.name) \o <<"|">> \o OrEmpty(p.email)
Identifier(p) ==
  toLowerCase(OrEmpty(p.name)) \o <<"|">> \o toLowerCase(OrEmpty(p.email))

\* line 204 and line 261: the profile built from the parsed response.  The id
\* is file.name + Date.now(), kept as the pair it is made of.
ResumeWithUrl(file, t, blobUrl) ==
  [id |-> [name |-> file.name, time |-> t],
   name |-> file.parsed.name, email |-> file.parsed.email,
   age |-> file.parsed.age, appliedFor |-> file.parsed.appliedFor,
   governorate |-> file.parsed.governorate,
   matchScore |-> NoScore,
   fileURL |-> blobUrl, fileType |-> file.type, fileName |-> file.name]

\* Date.now() when it is read: the clock stands where the last event left
\* it, or has moved on.
ClockReadings == {now} \cup (IF now % PacingDelay < MaxDrift THEN {now + 1} ELSE {})

Max(a, b) == IF a >= b THEN a ELSE b

\* lines 275 and 369: i < length - 1, for i counted from 1
MorePending_Always(i, length) == TRUE
MorePending(i, length) == i < length

\* lines 280-281
UniqueCount(uniqueIdentifiers) == Cardinality(uniqueIdentifiers)
DuplicateCount_Analyzed(analyzedResumesCount, uniqueCount) == analyzedResumesCount
DuplicateCount(analyzedResumesCount, uniqueCount) == analyzedResumesCount - uniqueCount

\* lines 248-255: the extraction loop is entered with allFiles = all.
EnterLoop(r, run, all) ==
  IF all = <<>>
    THEN /\ runs' = [runs EXCEPT ![r] = [run EXCEPT !.pc = "completed", !.allFiles = all]]
         /\ statusMessage' = AnalysisComplete(UniqueCount({}),
                                               DuplicateCount(0, UniqueCount({})))
         /\ isLoading' = FALSE
    ELSE /\ runs' = [runs EXCEPT ![r] =
                       [run EXCEPT !.pc = "extracting", !.allFiles = all, !.i = 1,
                                   !.attempted = <<1>>]]
         /\ statusMessage' = AnalyzingStatus(1, Len(all))
         /\ isLoading' = TRUE

\* line 226: blobUrlsRef.current.forEach(URL.revokeObjectURL)
RevokeAll_None(urls) == {}
RevokeAll(urls) == Range(urls)

\* lines 217 and 310: if (!ai)
ClientMissing_Never == FALSE
ClientMissing == ~ai

\* lines 216-255: the handler runs to its first await, or returns at line
\* 219 ("blocked").
HandleFileDrop(r, files) ==
  /\ runs[r].pc = "idle"
  /\ \A q \in Runs : q < r => runs[q].pc # "idle"
  /\ IF ClientMissing
       THEN /\ error' = ApiKeyError
            /\ runs' = [runs EXCEPT ![r].pc = "blocked"]
            /\ UNCHANGED <<resumes, isLoading, statusMessage, blobUrls, revoked,
                           overlapped>>
       ELSE /\ error' = NoMsg
            /\ revoked' = revoked \cup RevokeAll(blobUrls)
            /\ blobUrls' = <<>>
            /\ resumes' = <<>>
            /\ overlapped' = (overlapped \/ AnyActive)
            /\ IF HasZip(files)
                 THEN /\ runs' = [runs EXCEPT ![r] =
                                    [@ EXCEPT !.pc = "preparing", !.files = files]]
                      /\ statusMessage' = PrepareFiles
                      /\ isLoading' = TRUE
                 ELSE EnterLoop(r, [runs[r] EXCEPT !.files = files], ExpandFiles(files))
  /\ UNCHANGED <<ai, jobDescription, created, now, passes>>
  /\ UNCHANGED <<retryVars, filters>>

\* lines 235-246: the awaits of the archive loop settle.  A rejection of
\* JSZip.loadAsync is caught nowhere: the handler ends there.
ExpandSettle(r) ==
  /\ runs[r].pc = "preparing"
  /\ IF ZipFails(runs[r].files)
       THEN /\ runs' = [runs EXCEPT ![r].pc = "crashed"]
            /\ UNCHANGED <<statusMessage, isLoading>>
       ELSE LET all == ExpandFiles(runs[r].files)
            IN /\ EnterLoop(r, runs[r], all)
  /\ UNCHANGED <<ai, resumes, error, jobDescription, blobUrls, revoked, created,
                 now, passes, overlapped>>
  /\ UNCHANGED <<retryVars, filters>>

\* lines 255-284: analyzeResume returned a profile at clock reading t.
AnalyzeResolve(r) ==
  /\ runs[r].pc = "extracting"
  /\ \E t \in ClockReadings :
       LET run           == runs[r]
           file          == run.allFiles[run.i]
           blobUrl       == created + 1
           resumeWithUrl == ResumeWithUrl(file, t, blobUrl)
           identifier    == Identifier(resumeWithUrl)
           isNew         == identifier \notin run.uniqueIdentifiers
           seen          == run.uniqueIdentifiers \cup {identifier}
           count         == run.analyzedResumesCount + 1
           run1          == [run EXCEPT !.analyzedResumesCount = count,
                                        !.uniqueIdentifiers = seen,
                                        !.extracted = Append(@, run.i),
                                        !.appended = IF isNew THEN Append(@, run.i) ELSE @]
       IN /\ now' = t
          /\ created' = blobUrl
          /\ blobUrls' = Append(blobUrls, blobUrl)
          /\ resumes' = IF isNew THEN Append(resumes, resumeWithUrl) ELSE resumes
          /\ IF MorePending(run.i, Len(run.allFiles))
               THEN /\ runs' = [runs EXCEPT ![r] =
                                  [run1 EXCEPT !.pc = "pacing", !.timer = t,
                                               !.paced = @ + 1]]
                    /\ UNCHANGED <<statusMessage, isLoading>>
               ELSE /\ runs' = [runs EXCEPT ![r] = [run1 EXCEPT !.pc = "completed"]]
                    /\ statusMessage' =
                         AnalysisComplete(UniqueCount(seen),
                                          DuplicateCount(count, UniqueCount(seen)))
                    /\ isLoading' = FALSE
  /\ UNCHANGED <<ai, error, jobDescription, revoked, passes, overlapped>>
  /\ UNCHANGED <<retryVars, filters>>

\* lines 268-272: else { setIsLoading(false); return; }
AfterAnalysisFailure_Continue == "pacing"
AfterAnalysisFailure == "aborted"

\* lines 205-213 and 268-272: analyzeResume caught e and returned null.
AnalyzeReject(r, e) ==
  /\ runs[r].pc = "extracting"
  /\ error' = AnalysisError(runs[r].allFiles[runs[r].i].name, e)
  /\ isLoading' = FALSE
  /\ runs' = [runs EXCEPT ![r] =
                [@ EXCEPT !.pc = AfterAnalysisFailure, !.failed = runs[r].i]]
  /\ UNCHANGED <<ai, resumes, statusMessage, jobDescription, blobUrls, revoked,
                 created, now, passes, overlapped>>
  /\ UNCHANGED <<retryVars, filters>>

\* lines 274-277, then lines 251-255 for the next document: the pacing
\* timer fires, at least PacingDelay after it was set.
PacingDone(r) ==
  /\ runs[r].pc = "pacing"
  /\ now' = Max(now, runs[r].timer + PacingDelay)
  /\ runs' = [runs EXCEPT ![r] =
                [@ EXCEPT !.pc = "extracting", !.i = @ + 1,
                          !.attempted = Append(@, runs[r].i + 1)]]
  /\ statusMessage' = AnalyzingStatus(runs[r].i + 1, Len(runs[r].allFiles))
  /\ UNCHANGED <<ai, resumes, isLoading, error, jobDescription, blobUrls, revoked,
                 created, passes, overlapped>>
  /\ UNCHANGED <<retryVars, filters>>

(***************************************************************************)
(* handleMatch, lines 309-376                                              *)
(***************************************************************************)
\* line 365: b.matchScore ?? -1
ScoreKey(p) == IF p.matchScore = NoScore THEN -1 ELSE p.matchScore[1]

\* lines 362-364: currentResumes.map(r => r.id === resume.id ? {...r, matchScore} : r)
UpdateScore_KeepScored(list, id, score) ==
  [k \in 1..Len(list) |->
     IF list[k].id = id /\ list[k].matchScore = NoScore
       THEN [list[k] EXCEPT !.matchScore = score] ELSE list[k]]
UpdateScore_All(list, id, score) ==
  [k \in 1..Len(list) |-> [list[k] EXCEPT !.matchScore = score]]
UpdateScore(list, id, score) ==
  [k \in 1..Len(list) |->
     IF list[k].id = id THEN [list[k] EXCEPT !.matchScore = score] ELSE list[k]]

\* line 365: Array.prototype.sort with (a, b) => key(b) - key(a), a stable
\* sort: x goes behind every element whose key is not below its own.
RECURSIVE InsertByScore(_, _)
InsertByScore(sorted, x) ==
  IF sorted = <<>> THEN <<x>>
  ELSE IF ScoreKey(Head(sorted)) >= ScoreKey(x)
         THEN <<Head(sorted)>> \o InsertByScore(Tail(sorted), x)
         ELSE <<x>> \o sorted

SortByScore_None(list) == list
RECURSIVE SortByScore(_)
SortByScore(list) ==
  IF list = <<>> THEN <<>>
  ELSE InsertByScore(SortByScore(SubSeq(list, 1, Len(list) - 1)), list[Len(list)])

\* line 473: the match button is not disabled.
MatchButtonEnabled == ~isLoading /\ Len(resumes) # 0 /\ ai
\* lines 470-471: the textarea is not disabled.
TextareaEnabled == ~isLoading /\ ai

\* line 470: onInput
SetJobDescription(text) ==
  /\ TextareaEnabled
  /\ jobDescription' = text
  /\ UNCHANGED <<ai, resumes, isLoading, error, statusMessage, blobUrls, revoked,
                 created, now, runs, passes, overlapped>>
  /\ UNCHANGED <<retryVars, filters>>

\* line 314: !jobDescription || resumes.length === 0
MatchInputMissing_SetOnly == Len(resumes) = 0
MatchInputMissing == jobDescription = <<>> \/ Len(resumes) = 0

\* lines 309-348: the handler runs to its first await, with the resumes and
\* the jobDescription of the render it was created in.
HandleMatch(m) ==
  /\ passes[m].pc = "idle"
  /\ \A q \in Passes : q < m => passes[q].pc # "idle"
  /\ IF ClientMissing
       THEN /\ error' = ApiKeyError
            /\ UNCHANGED <<isLoading, statusMessage, passes, overlapped>>
       ELSE IF MatchInputMissing
       THEN /\ error' = MatchError
            /\ UNCHANGED <<isLoading, statusMessage, passes, overlapped>>
       ELSE /\ isLoading' = TRUE
            /\ error' = NoMsg
            /\ statusMessage' = MatchingStatus(1, Len(resumes))
            /\ passes' = [passes EXCEPT ![m] =
                            [@ EXCEPT !.pc = "scoring", !.resumes = resumes, !.i = 1,
                                      !.scoreCalls = <<1>>]]
            /\ overlapped' = (overlapped \/ AnyActive)
  /\ UNCHANGED <<ai, resumes, jobDescription, blobUrls, revoked, created, now, runs>>
  /\ UNCHANGED <<retryVars, filters>>

\* line 473: onClick of the button, when it is enabled.
ClickMatch(m) == MatchButtonEnabled /\ HandleMatch(m)

\* lines 349 and 361-375: the scoring call returned, the response parsed.
ScoreResolve(m, matchScore) ==
  /\ passes[m].pc = "scoring"
  /\ LET pass   == passes[m]
         resume == pass.resumes[pass.i]
         pass1  == [pass EXCEPT !.assigned = Append(@, matchScore)]
     IN /\ resumes' = SortByScore(UpdateScore(resumes, resume.id, matchScore))
        /\ IF MorePending(pass.i, Len(pass.resumes))
             THEN /\ passes' = [passes EXCEPT ![m] =
                                  [pass1 EXCEPT !.pc = "pacing", !.timer = now,
                                                !.paced = @ + 1]]
                  /\ UNCHANGED <<isLoading, statusMessage>>
             ELSE /\ passes' = [passes EXCEPT ![m] = [pass1 EXCEPT !.pc = "completed"]]
                  /\ isLoading' = FALSE
                  /\ statusMessage' = MatchComplete
  /\ UNCHANGED <<ai, error, jobDescription, blobUrls, revoked, created, now, runs,
                 overlapped>>
  /\ UNCHANGED <<retryVars, filters>>

\* lines 350-359: the scoring call or JSON.parse threw e.
ScoreReject(m, e) ==
  /\ passes[m].pc = "scoring"
  /\ error' = MatchingError(passes[m].resumes[passes[m].i].name, e)
  /\ isLoading' = FALSE
  /\ passes' = [passes EXCEPT ![m].pc = "aborted"]
  /\ UNCHANGED <<ai, resumes, statusMessage, jobDescription, blobUrls, revoked,
                 created, now, runs, overlapped>>
  /\ UNCHANGED <<retryVars, filters>>

\* lines 368-371, then lines 321-348 for the next profile.
MatchPacingDone(m) ==
  /\ passes[m].pc = "pacing"
  /\ now' = Max(now, passes[m].timer + PacingDelay)
  /\ passes' = [passes EXCEPT ![m] =
                  [@ EXCEPT !.pc = "scoring", !.i = @ + 1,
                            !.scoreCalls = Append(@, passes[m].i + 1)]]
  /\ statusMessage' = MatchingStatus(passes[m].i + 1, Len(passes[m].resumes))
  /\ UNCHANGED <<ai, resumes, isLoading, error, jobDescription, blobUrls, revoked,
                 created, runs, overlapped>>
  /\ UNCHANGED <<retryVars, filters>>


\* line 125
NoFilters == [job |-> <<>>, governorate |-> <<>>, age |-> <<>>]

AppInit ==
  /\ ai \in BOOLEAN
  /\ resumes = <<>>
  /\ isLoading = FALSE
  /\ error = (IF ai THEN NoMsg ELSE ApiKeyError)   \* lines 140-144
  /\ statusMessage = NoStatus
  /\ jobDescription = <<>>
  /\ blobUrls = <<>>
  /\ revoked = {}
  /\ created = 0
  /\ now = 0
  /\ runs = [r \in Runs |-> IdleRun]
  /\ passes = [m \in Passes |-> IdlePass]
  /\ overlapped = FALSE
  /\ filters = NoFilters

Init == RetryIdle /\ AppInit

\* The handler invocations so far that began a run or a pass.
Started ==
  Cardinality({r \in Runs : runs[r].pc # "idle"})
    + Cardinality({m \in Passes : passes[m].pc # "idle"})

Next ==
  \/ \E r \in Runs, files \in InputLists :
       Started < MaxStarts /\ HandleFileDrop(r, files)
  \/ \E r \in Runs : ExpandSettle(r)
  \/ \E r \in Runs : AnalyzeResolve(r)
  \/ \E r \in Runs, e \in AnalyzeErrors : AnalyzeReject(r, e)
  \/ \E r \in Runs : PacingDone(r)
  \/ \E text \in JobDescriptions : SetJobDescription(text)
  \/ \E m \in Passes : Started < MaxStarts /\ ClickMatch(m)
  \/ \E m \in Passes, matchScore \in Scores \cup {NoScore} : ScoreResolve(m, matchScore)
  \/ \E m \in Passes, e \in ScoreErrors : ScoreReject(m, e)
  \/ \E m \in Passes : MatchPacingDone(m)

Spec == Init /\ [][Next]_vars

RetryInit == RetryIdle /\ AppInit /\ ai = TRUE

RetryNext ==
  \/ \E R \in RetryBudgets, D \in InitialDelays : RetryCall(R, D)
  \/ ServiceResolve
  \/ \E e \in ServiceErrors : ServiceReject(e)
  \/ SleepDone
  \/ RetryConsume

\* A pending service call settles and a pending timer fires.
RetryFair ==
  /\ WF_vars(ServiceResolve \/ \E e \in ServiceErrors : ServiceReject(e))
  /\ WF_vars(SleepDone)

RetrySpec == RetryInit /\ [][RetryNext]_vars /\ RetryFair

(***************************************************************************)
(* The filters and filteredResumes, lines 125, 384-410, 486-488            *)
(***************************************************************************)
\* The strings of the filter inputs are sequences of characters.
Digits == {"0", "1", "2", "3", "4", "5", "6", "7", "8", "9"}
DigitValue(c) ==
  CASE c = "0" -> 0 [] c = "1" -> 1 [] c = "2" -> 2 [] c = "3" -> 3 [] c = "4" -> 4
    [] c = "5" -> 5 [] c = "6" -> 6 [] c = "7" -> 7 [] c = "8" -> 8 [] c = "9" -> 9

\* String.prototype.trim
RECURSIVE trimStart(_)
trimStart(str) ==
  IF str # <<>> /\ Head(str) = " " THEN trimStart(Tail(str)) ELSE str
RECURSIVE trimEnd(_)
trimEnd(str) ==
  IF str # <<>> /\ str[Len(str)] = " " THEN trimEnd(SubSeq(str, 1, Len(str) - 1)) ELSE str
trim(str) == trimEnd(trimStart(str))

\* String.prototype.split(sep) for a one-character separator.
RECURSIVE splitFrom(_, _, _)
splitFrom(str, sep, current) ==
  IF str = <<>> THEN <<current>>
  ELSE IF Head(str) = sep THEN <<current>> \o splitFrom(Tail(str), sep, <<>>)
  ELSE splitFrom(Tail(str), sep, Append(current, Head(str)))
split(str, sep) == splitFrom(str, sep, <<>>)

\* parseInt(str, 10): leading white space is skipped, then an optional sign,
\* then the longest run of digits; whatever follows is ignored.  The result
\* is <<n>>, or NaN when there is no digit to read.
NaN == <<>>
RECURSIVE parseDigits(_, _, _)
parseDigits(str, acc, seen) ==
  IF str # <<>> /\ Head(str) \in Digits
    THEN parseDigits(Tail(str), acc * 10 + DigitValue(Head(str)), TRUE)
    ELSE IF seen THEN <<acc>> ELSE NaN
parseInt(str) ==
  LET t == trimStart(str)
  IN IF t # <<>> /\ Head(t) = "-"
       THEN LET n == parseDigits(Tail(t), 0, FALSE)
            IN IF n = NaN THEN NaN ELSE <<0 - n[1]>>
     ELSE IF t # <<>> /\ Head(t) = "+" THEN parseDigits(Tail(t), 0, FALSE)
     ELSE parseDigits(t, 0, FALSE)

\* String.prototype.includes for a string argument.
includesStr(str, sub) ==
  \E k \in 0..(Len(str) - Len(sub)) : SubSeq(str, k + 1, k + Len(sub)) = sub

\* `r.field &&`: the field is present and not the empty string.
Truthy(x) == x # Null /\ x # <<>>

\* line 389: String(filters.age || '').trim()
AgeFilterText(f) == trim(f.age)

\* line 394: let ageMatch = true
AgeMatchDefault_None == FALSE
AgeMatchDefault == TRUE

\* line 400: r.age >= minAge && r.age <= maxAge
InRange_Exclusive(age, minAge, maxAge) == age > minAge /\ age < maxAge
InRange(age, minAge, maxAge) == age >= minAge /\ age <= maxAge

\* lines 394-405, for a profile whose age is a number.
AgeMatch(age, ageFilter) ==
  IF includes(ageFilter, "-")
    THEN LET parts  == split(ageFilter, "-")
             minAge == parseInt(parts[1])
             maxAge == parseInt(parts[2])
         IN IF minAge # NaN /\ maxAge # NaN THEN InRange(age, minAge[1], maxAge[1])
            ELSE IF minAge # NaN THEN age >= minAge[1]
            ELSE IF maxAge # NaN THEN age <= maxAge[1]
            ELSE AgeMatchDefault
    ELSE LET exactAge == parseInt(ageFilter)
         IN IF exactAge # NaN THEN age = exactAge[1] ELSE AgeMatchDefault

\* lines 385-407: the predicate of resumes.filter
Keeps(f, r) ==
  LET jobMatch  == \/ f.job = <<>>
                   \/ /\ Truthy(r.appliedFor)
                      /\ includesStr(toLowerCase(r.appliedFor), toLowerCase(f.job))
      govMatch  == \/ f.governorate = <<>>
                   \/ /\ Truthy(r.governorate)
                      /\ includesStr(toLowerCase(r.governorate), toLowerCase(f.governorate))
      ageFilter == AgeFilterText(f)
  IN IF ageFilter = <<>> \/ r.age = NoAge
       THEN jobMatch /\ govMatch /\ ageFilter = <<>>
       ELSE jobMatch /\ govMatch /\ AgeMatch(r.age[1], ageFilter)

\* lines 384-408: resumes.filter(...) under the filters f
Filtered(list, f) ==
  LET Test(r) == Keeps(f, r)
  IN SelectSeq(list, Test)

filteredResumes == Filtered(resumes, filters)

\* What the user types into the three filter inputs.
MaxFilterLen == 3
AgeChars == {"3", "0", "-", "a", " "}
AgeFilters ==
  UNION {[1..n -> AgeChars] : n \in 0..MaxFilterLen}
    \cup { <<"2", "5", "-", "3", "0">>, <<"2", "5", " ", "-", " ", "3", "0">>,
           <<"2", "5", "-", "3", "0", "-", "4">>, <<"2", "a", "-", "3", "0", "x">>,
           <<"a", "b", "c">>, <<"+", "3", "0">>, <<" ", "2", "4", " ">>,
           <<"x", "-", "y">>, <<"-", "2", "4">> }
JobFilters == { <<>>, <<"D", "E">>, <<"q", "a">>, <<"o", "p", "s">> }
GovernorateFilters == { <<>>, <<"c", "A", "i">>, <<"z", "a">> }

\* The ProfileSets the filters are tried on: profiles as analyzeResume
\* builds them, one second apart, with every kind of age.
Candidate(k, tag, age, appliedFor, governorate) ==
  ResumeWithUrl(MkFile(<<tag, ".pdf">>, <<"application/pdf">>,
                       Parsed(<<tag>>, Null, age, appliedFor, governorate)),
                k * PacingDelay, k)
Everyone ==
  << Candidate(1, "c1", <<24>>, Dev, Cairo),
     Candidate(2, "c2", NoAge, Dev, Giza),
     Candidate(3, "c3", <<25>>, Qa, Null),
     Candidate(4, "c4", <<30>>, Null, Cairo),
     Candidate(5, "c5", <<31>>, Dev, Cairo),
     Candidate(6, "c6", <<0>>, Qa, Giza),
     Candidate(7, "c7", <<3>>, <<>>, Cairo) >>
ProfileSets ==
  {SubSeq(Everyone, 1, b) : b \in 0..Len(Everyone)}
    \cup {SubSeq(Everyone, a, Len(Everyone)) : a \in 1..Len(Everyone)}

\* lines 486-488: onInput of the three filter inputs
SetFilterJob(value) ==
  /\ filters' = [filters EXCEPT !.job = value]
  /\ UNCHANGED <<ai, resumes, isLoading, error, statusMessage, jobDescription,
                 blobUrls, revoked, created, now, runs, passes, overlapped>>
  /\ UNCHANGED retryVars

SetFilterGovernorate(value) ==
  /\ filters' = [filters EXCEPT !.governorate = value]
  /\ UNCHANGED <<ai, resumes, isLoading, error, statusMessage, jobDescription,
                 blobUrls, revoked, created, now, runs, passes, overlapped>>
  /\ UNCHANGED retryVars

SetFilterAge(value) ==
  /\ filters' = [filters EXCEPT !.age = value]
  /\ UNCHANGED <<ai, resumes, isLoading, error, statusMessage, jobDescription,
                 blobUrls, revoked, created, now, runs, passes, overlapped>>
  /\ UNCHANGED retryVars

\* The filtered view is a function of resumes and filters alone: it is
\* examined over every ProfileSet of ProfileSets, with the rest of the
\* component at rest.
FilterInit ==
  /\ RetryIdle
  /\ ai = TRUE
  /\ resumes \in ProfileSets
  /\ isLoading = FALSE
  /\ error = NoMsg
  /\ statusMessage = NoStatus
  /\ jobDescription = <<>>
  /\ blobUrls = <<>>
  /\ revoked = {}
  /\ created = 0
  /\ now = 0
  /\ runs = [r \in Runs |-> IdleRun]
  /\ passes = [m \in Passes |-> IdlePass]
  /\ overlapped = FALSE
  /\ filters = NoFilters

FilterNext ==
  \/ \E value \in JobFilters : SetFilterJob(value)
  \/ \E value \in GovernorateFilters : SetFilterGovernorate(value)
  \/ \E value \in AgeFilters : SetFilterAge(value)

FilterSpec == FilterInit /\ [][FilterNext]_vars

(***************************************************************************)
(* Claims about generateContentWithRetry, checked under RetrySpec          *)
(***************************************************************************)
\* The failures the claims call retriable, named one by one: an Error whose
\* message carries 429 or resource_exhausted in any letter case.
SignalsRateLimit(e) == e \in {E429, EResExhUpper}

\* The call has raised after `retries` service failures, all of them retriable.
BudgetUsedUp ==
  /\ rpc = "raised"
  /\ Len(svcErrs) = retries
  /\ \A k \in 1..Len(svcErrs) : SignalsRateLimit(svcErrs[k])

\* C2 (as stated): when every attempt of one call fails with a retriable error
\* and the budget is used up, the call raises a "retries exhausted" failure
\* that is distinct from the errors the service threw.
C2_RaisesExhausted ==
  BudgetUsedUp => (raised = ExhaustedError /\ raised \notin Range(svcErrs))

\* C2 (amended): when every attempt of one call fails with a retriable error
\* and the budget (at least 1) is used up, the call re-raises the very error
\* the service threw on the last attempt; the separate "retries exhausted"
\* error is raised only by a call whose budget is below 1, before any attempt.
C2_RaisesLastError ==
  /\ BudgetUsedUp =>
       IF retries >= 1 THEN raised = svcErrs[retries] ELSE raised = ExhaustedError
  /\ (rpc = "raised" /\ raised = ExhaustedError) => (retries < 1 /\ svcCalls = 0)

C2_Witness == BudgetUsedUp /\ retries = DefaultRetries /\ svcCalls = DefaultRetries

\* C3: one call with budget R makes at most R attempts against the service,
\* has raised once R attempts have failed (no further attempt is pending),
\* and always terminates: a call in progress eventually returns or raises.
C3_RetryBudgetBound ==
  /\ [](svcCalls <= retries)
  /\ []((rpc # "idle" /\ Len(svcErrs) = retries) => rpc = "raised")
  /\ (rpc \in {"calling", "sleeping"}) ~> (rpc \in {"returned", "raised"})

C3_Witness == BudgetUsedUp /\ retries = DefaultRetries /\ svcCalls = DefaultRetries
              /\ Len(sleeps) = DefaultRetries - 1

\* C4: within one call the non-jitter component of the sleep before the n-th
\* retry is initialDelay * 2^(n-1), and every call starts again from its own
\* initialDelay whatever the calls before it did.
C4_BackoffDoubling ==
  \A n \in 1..Len(sleeps) : sleeps[n].base = initialDelay * 2^(n - 1)

C4_Witness == calls >= 2 /\ Len(sleeps) = DefaultRetries - 1 /\ rpc = "returned"

\* C5: a service failure is retried iff it signals a rate limit and attempts
\* remain; any other failure is re-raised as it is at once, with no sleep and
\* no further service call, however many attempts remain.
C5_TerminalNotRetried ==
  [][/\ (rpc = "calling" /\ Len(svcErrs') = Len(svcErrs) + 1) =>
          LET e == svcErrs'[Len(svcErrs')]
              retried == rpc' = "sleeping"
          IN /\ retried <=> (SignalsRateLimit(e) /\ Len(svcErrs') < retries)
             /\ retried => (Len(sleeps') = Len(sleeps) + 1 /\ raised' = NoError)
             /\ ~retried => /\ rpc' = "raised"
                            /\ raised' = e
                            /\ sleeps' = sleeps
                            /\ svcCalls' = svcCalls
     /\ rpc = "raised" => (rpc' = "idle" /\ svcCalls' = svcCalls)]_vars

C5_Witness ==
  /\ rpc = "raised"
  /\ Len(sleeps) >= 1
  /\ Len(svcErrs) < retries
  /\ raised = E500

(***************************************************************************)
(* Claims about the App, checked under Spec                                *)
(***************************************************************************)
\* The identity of a profile as the claims define it: the pair of its
\* lower-cased name and e-mail, each empty when absent.
IdentityKey(parsed) ==
  <<toLowerCase(IF parsed.name = Null THEN <<>> ELSE parsed.name),
    toLowerCase(IF parsed.email = Null THEN <<>> ELSE parsed.email)>>

\* Among documents docs[1..upto], those no earlier one shares its identity with.
FirstSeen(docs, upto) ==
  {j \in 1..upto :
     \A j2 \in 1..(j - 1) : IdentityKey(docs[j2].parsed) # IdentityKey(docs[j].parsed)}

\* The n-th smallest member of a set of numbers.
Nth(S, n) == CHOOSE j \in S : Cardinality({x \in S : x <= j}) = n

\* The ProfileSet `list` holds exactly the profiles of docs[j], j in idxs, in
\* document order.
HoldsExactly(list, docs, idxs) ==
  /\ Len(list) = Cardinality(idxs)
  /\ \A n \in 1..Len(list) :
       /\ list[n].fileName = docs[Nth(idxs, n)].name
       /\ list[n].name = docs[Nth(idxs, n)].parsed.name
       /\ list[n].email = docs[Nth(idxs, n)].parsed.email

UpTo(k) == [j \in 1..k |-> j]

\* C1: in an ingestion run whose first failing document is dk, d1..dk are each
\* attempted exactly once, in order, and no document after dk is ever
\* attempted; and at the moment the run ends the ProfileSet holds exactly the
\* first-seen profiles of d1..d(k-1).  The last part is about the one run: it
\* is checked for runs that no other run or pass overlaps.
C1_FailFastIngestion ==
  /\ [](\A r \in Runs :
          /\ runs[r].pc \in {"extracting", "pacing", "completed", "aborted"}
               => runs[r].attempted = UpTo(runs[r].i)
          /\ runs[r].failed # 0
               => /\ runs[r].pc = "aborted"
                  /\ runs[r].attempted = UpTo(runs[r].failed)
                  /\ runs[r].extracted = UpTo(runs[r].failed - 1))
  /\ [][\A r \in Runs :
          (runs[r].failed = 0 /\ runs'[r].failed # 0 /\ ~overlapped')
            => HoldsExactly(resumes', runs'[r].allFiles,
                            FirstSeen(runs'[r].allFiles, runs'[r].failed - 1))]_vars

C1_Witness ==
  \E r \in Runs :
    /\ runs[r].failed = 2
    /\ Len(runs[r].allFiles) = 3
    /\ ~overlapped
    /\ Len(resumes) = 1

\* C6: within one ingestion run, of the profiles extracted so far that share
\* an identity key exactly one was appended to the ProfileSet, the first one
\* processed; while the run has the ProfileSet to itself the set holds
\* exactly those first-seen profiles.
C6_Deduplication ==
  \A r \in Runs :
    LET run == runs[r]
        n   == Len(run.extracted)
    IN /\ run.extracted = UpTo(n)
       /\ Range(run.appended) = FirstSeen(run.allFiles, n)
       /\ \A a, b \in 1..Len(run.appended) : a < b => run.appended[a] < run.appended[b]
       /\ (ActiveRun(r) /\ run.pc # "preparing" /\ ~overlapped)
            => HoldsExactly(resumes, run.allFiles, FirstSeen(run.allFiles, n))

\* Two profiles that both lack name and e-mail were extracted, one was kept.
C6_Witness ==
  \E r \in Runs :
    /\ runs[r].pc = "completed"
    /\ Len(runs[r].extracted) = 2
    /\ runs[r].appended = <<1>>
    /\ \A j \in 1..2 : runs[r].allFiles[j].parsed = PNone
    /\ Len(resumes) = 1

\* The profile of `list` with the id of p, when there is exactly one.
WithId(list, p) == {k \in 1..Len(list) : list[k].id = p.id}

\* C7: in a match pass over p1..pn whose first failure is at pi, an error is
\* set and the pass halts with no scoring call for any profile after pi; at
\* that moment p1..p(i-1) carry the scores this pass assigned and pi..pn the
\* matchScore they had before the pass.  The state of the ProfileSet is
\* checked for passes that no other run or pass overlaps.
C7_FailFastMatching ==
  /\ [](\A m \in Passes :
          /\ passes[m].scoreCalls = UpTo(passes[m].i)
          /\ passes[m].pc = "aborted" => Len(passes[m].assigned) = passes[m].i - 1)
  /\ [][\A m \in Passes :
          (passes[m].pc = "scoring" /\ passes'[m].pc = "aborted")
            => /\ error'.kind = "matchingError"
               /\ ~isLoading'
               /\ ~overlapped' =>
                    \A j \in 1..Len(passes[m].resumes) :
                      LET p  == passes[m].resumes[j]
                          at == WithId(resumes', p)
                      IN /\ Cardinality(at) = 1
                         /\ \A k \in at :
                              resumes'[k].matchScore =
                                IF j < passes[m].i THEN passes[m].assigned[j]
                                                   ELSE p.matchScore]_vars

\* A second pass fails at p2 after re-scoring p1: p2 keeps the score of the
\* pass before.
C7_Witness ==
  \E m \in Passes :
    /\ passes[m].pc = "aborted"
    /\ passes[m].i = 2
    /\ Len(passes[m].resumes) = 2
    /\ ~overlapped
    /\ passes[m].resumes[1].matchScore = <<40>>
    /\ passes[m].resumes[2].matchScore = NoScore
    /\ passes[m].assigned = << <<90>> >>
    /\ Len(resumes) = 2 /\ resumes[1].matchScore = <<90>> /\ resumes[2].matchScore = NoScore

\* The order the claims ask of the ProfileSet: matchScore never increases
\* along it, an absent score counting as -1.
ScoreOrNone(p) == IF p.matchScore = NoScore THEN -1 ELSE p.matchScore[1]
NonIncreasing(list) ==
  \A a, b \in 1..Len(list) : a < b => ScoreOrNone(list[a]) >= ScoreOrNone(list[b])

\* C8: after every successful score update of a match pass, not only the
\* last, the whole ProfileSet is in non-increasing matchScore order (absent
\* counts as -1) and still holds the same profiles.
C8_MatchResort ==
  [][\A m \in Passes :
       Len(passes'[m].assigned) = Len(passes[m].assigned) + 1
         => /\ NonIncreasing(resumes')
            /\ Len(resumes') = Len(resumes)
            /\ {resumes'[k].id : k \in 1..Len(resumes')}
                 = {resumes[k].id : k \in 1..Len(resumes)}]_vars

\* [X, Y] scored X = 40 then Y = 90 stands as [Y, X].
C8_Witness ==
  \E m \in Passes :
    /\ Len(passes[m].resumes) = 2
    /\ passes[m].assigned = << <<40>>, <<90>> >>
    /\ Len(resumes) = 2
    /\ resumes[1].id = passes[m].resumes[2].id
    /\ resumes[2].id = passes[m].resumes[1].id
    /\ resumes[1].matchScore = <<90>>
    /\ resumes[2].matchScore = <<40>>

\* An earlier ingestion run that is still active after a later one started.
Superseded(r) ==
  ActiveRun(r) /\ \E q \in Runs : q > r /\ runs[q].pc # "idle"

\* C9 (as stated): once a new ingestion run has started while an earlier one
\* was active, the earlier run appends no profile to the ProfileSet, makes
\* no further remote call and begins no further pacing wait.
C9_SupersededRunDiscarded ==
  [][\A r \in Runs :
       Superseded(r) => /\ runs'[r].appended = runs[r].appended
                        /\ runs'[r].attempted = runs[r].attempted
                        /\ runs'[r].paced = runs[r].paced]_vars

\* A step in which run r, or pass m, writes to the ProfileSet.
RunWrites(r) ==
  \/ runs[r].pc = "idle" /\ runs'[r].pc \notin {"idle", "blocked"}  \* setResumes([])
  \/ runs'[r].appended # runs[r].appended                 \* append
PassWrites(m) == passes'[m].assigned # passes[m].assigned \* update and re-sort

\* An ingestion run that holds the ProfileSet: active and not superseded by a
\* later ingestion run (what becomes of a superseded run is claim C9).
LiveRun(r) == ActiveRun(r) /\ ~Superseded(r)

\* C10 (as stated): while an ingestion run or a match pass is active no other
\* run or pass writes to the ProfileSet: an ingestion run clears or appends
\* only when no match pass is active, and a match pass updates and re-sorts
\* only when no ingestion run and no other match pass is active.
C10_ExclusiveProfileSet ==
  [][/\ \A r \in Runs :
          (RunWrites(r) /\ ~Superseded(r)')
            => /\ \A q \in Runs \ {r} : ~LiveRun(q)'
               /\ \A m \in Passes : ~ActivePass(m)
     /\ \A m \in Passes :
          PassWrites(m) => /\ \A r \in Runs : ~LiveRun(r)
                           /\ \A q \in Passes \ {m} : ~ActivePass(q)]_vars

\* The fields the response schema marks required (line 165) that the model
\* carries: a parsed response lacks one when its name is absent.
LacksRequired(parsed) == parsed.name = Null

\* C11 (as stated): a document whose response parses but lacks a required
\* field is failed by analyzeResume: it is never counted as extracted, no
\* profile is built from it, and no profile lacking a required field is in
\* the ProfileSet.
C11_RequiredFieldValidation ==
  /\ \A r \in Runs : \A j \in Range(runs[r].extracted) :
       ~LacksRequired(runs[r].allFiles[j].parsed)
  /\ \A k \in 1..Len(resumes) : resumes[k].name # Null

\* C12 (as stated): a run whose archive cannot be opened during preparation
\* ends Aborted: it never calls analyzeResume, and once it has ended it is
\* no longer reported as in progress, so with no other run or pass active
\* isLoading is false.
C12_ArchiveFailureAborts ==
  \A r \in Runs :
    runs[r].pc = "crashed"
      => /\ runs[r].attempted = <<>>
         /\ (~AnyActive => ~isLoading)

\* C13: an ingestion run over n documents that reaches Completed reports, in
\* the step that completes it, a unique count equal to the number of profiles
\* the run appended and a duplicate count equal to the number it extracted
\* minus the unique count, the two adding up to n; the run's counters equal
\* what it has extracted and appended so far, so they start from zero.
C13_CompletionSummary ==
  /\ [](\A r \in Runs :
          /\ runs[r].analyzedResumesCount = Len(runs[r].extracted)
          /\ Cardinality(runs[r].uniqueIdentifiers) = Len(runs[r].appended)
          /\ runs[r].pc \in {"idle", "preparing"}
               => runs[r].analyzedResumesCount = 0 /\ runs[r].uniqueIdentifiers = {})
  /\ [][\A r \in Runs :
          (runs[r].pc # "completed" /\ runs'[r].pc = "completed")
            => LET unique    == Len(runs'[r].appended)
                   duplicate == Len(runs'[r].extracted) - unique
               IN /\ statusMessage' = AnalysisComplete(unique, duplicate)
                  /\ unique + duplicate = Len(runs'[r].allFiles)]_vars

\* A second run of two documents, one a duplicate of the other, completes
\* after a first run that had appended profiles of its own.
C13_Witness ==
  /\ runs[1].pc \in {"completed", "aborted"}
  /\ Len(runs[1].appended) >= 1
  /\ runs[2].pc = "completed"
  /\ Len(runs[2].allFiles) = 2
  /\ statusMessage = AnalysisComplete(1, 1)

\* C14: a match request made with an empty job description or an empty
\* ProfileSet is rejected with the validation error: no pass starts from
\* such a state, so no scoring call is made, and the step that sets the
\* validation error changes nothing but the error message.
C14_MatchValidation ==
  [][/\ \A m \in Passes :
          (passes[m].pc = "idle" /\ passes'[m].pc # "idle")
            => jobDescription # <<>> /\ Len(resumes) # 0
     /\ (error # MatchError /\ error' = MatchError)
          => /\ jobDescription = <<>> \/ Len(resumes) = 0
             /\ resumes' = resumes
             /\ isLoading' = isLoading
             /\ passes' = passes
             /\ runs' = runs
             /\ statusMessage' = statusMessage]_vars

\* The match button was clicked with profiles present and no job description.
C14_Witness ==
  /\ error = MatchError
  /\ jobDescription = <<>>
  /\ Len(resumes) >= 1
  /\ ~isLoading
  /\ \A m \in Passes : passes[m].pc = "idle"

\* C15: when the inference client is uninitialized no ingestion run and no
\* match pass ever starts: no document is analysed, no profile is scored, the
\* ProfileSet stays as it was (empty, the client being fixed at load), the
\* loading flag stays false, the status is untouched and the error message
\* is the configuration error.
C15_ConfigurationFailure ==
  ~ai => /\ \A r \in Runs : /\ runs[r].pc \in {"idle", "blocked"}
                            /\ runs[r].attempted = <<>>
         /\ \A m \in Passes : passes[m].pc = "idle" /\ passes[m].scoreCalls = <<>>
         /\ resumes = <<>>
         /\ ~isLoading
         /\ statusMessage = NoStatus
         /\ blobUrls = <<>> /\ revoked = {} /\ created = 0
         /\ error = ApiKeyError

\* Files were dropped twice with no client.
C15_Witness ==
  /\ ~ai
  /\ runs[1].pc = "blocked"
  /\ runs[2].pc = "blocked"

(***************************************************************************)
(* Claims about the filters, checked under FilterSpec                      *)
(***************************************************************************)
\* The profiles of list that have an age, in order.
HavingAge(list) ==
  LET Test(r) == r.age # NoAge
  IN SelectSeq(list, Test)

\* An age filter with no '-' that parseInt reads no integer from.
UnparseableExact(f) == ~includes(f.age, "-") /\ parseInt(f.age) = NaN

\* C16 (as stated): with empty job and governorate filters, an age filter
\* that contains no '-' and does not parse as an integer keeps every profile:
\* the filtered view equals the whole ProfileSet.
C16_UnparseableKeepsAll ==
  (filters.job = <<>> /\ filters.governorate = <<>> /\ UnparseableExact(filters))
    => filteredResumes = resumes

\* C16 (amended): with empty job and governorate filters, an age filter that
\* contains no '-' and does not parse as an integer keeps every profile that
\* has an age, in order; profiles without an age are kept only when the
\* filter is blank.
C16_UnparseableKeepsAged ==
  (filters.job = <<>> /\ filters.governorate = <<>> /\ UnparseableExact(filters))
    => filteredResumes = (IF trim(filters.age) = <<>> THEN resumes ELSE HavingAge(resumes))

\* "abc" over a ProfileSet of seven, one of them without an age.
C16_Witness ==
  /\ filters = [job |-> <<>>, governorate |-> <<>>, age |-> <<"a", "b", "c">>]
  /\ resumes = Everyone
  /\ Len(filteredResumes) = 6
  /\ \A k \in 1..Len(filteredResumes) : filteredResumes[k].age # NoAge

\* The profiles of list whose age is a number within lo..hi, an absent bound
\* (NaN) being open.
AgedWithin(list, lo, hi) ==
  LET Test(r) == /\ r.age # NoAge
                 /\ lo # NaN => r.age[1] >= lo[1]
                 /\ hi # NaN => r.age[1] <= hi[1]
  IN SelectSeq(list, Test)

\* What the job and governorate filters alone keep.
WithoutAgeFilter == Filtered(resumes, [filters EXCEPT !.age = <<>>])

\* C17: for an age filter "min-max" the profiles kept are those the other
\* filters keep that have an age with min <= age <= max, both inclusive; a
\* side that does not parse as an integer is open, and with both sides
\* unparseable every profile with an age is kept; any age filter that is not
\* blank drops the profiles without an age.  "25-30" keeps 25 and 30 and
\* drops 24 and 31, "30-" keeps every age from 30 up.
C17_AgeRangeFilter ==
  LET ageFilter == trim(filters.age)
  IN /\ ageFilter # <<>>
          => \A k \in 1..Len(filteredResumes) : filteredResumes[k].age # NoAge
     /\ includes(ageFilter, "-")
          => LET parts == split(ageFilter, "-")
             IN filteredResumes =
                  AgedWithin(WithoutAgeFilter, parseInt(parts[1]), parseInt(parts[2]))
     /\ filters.age = <<"2", "5", "-", "3", "0">>
          => filteredResumes = AgedWithin(WithoutAgeFilter, <<25>>, <<30>>)
     /\ filters.age = <<"3", "0", "-">>
          => filteredResumes = AgedWithin(WithoutAgeFilter, <<30>>, NaN)
     /\ filters.age = <<"-", "3", "0">>
          => filteredResumes = AgedWithin(WithoutAgeFilter, NaN, <<30>>)
     /\ filters.age = <<"x", "-", "y">>
          => filteredResumes = HavingAge(WithoutAgeFilter)

\* "25-30" over the seven profiles keeps the two aged 25 and 30.
C17_Witness ==
  /\ filters = [job |-> <<>>, governorate |-> <<>>, age |-> <<"2", "5", "-", "3", "0">>]
  /\ resumes = Everyone
  /\ Len(filteredResumes) = 2
  /\ filteredResumes[1].age = <<25>>
  /\ filteredResumes[2].age = <<30>>

\* The documents one input file contributes, as the claims put it: the
\* non-directory entries of an archive that have a supported extension in
\* entry order, the file itself when it is no archive and has a supported
\* extension, nothing otherwise.
HasSupportedExtension(name) ==
  Len(name) > 0 /\ toLowerCaseTok(name[Len(name)]) \in {".pdf", ".doc", ".docx", ".xls", ".xlsx"}
IsArchive(file) == Len(file.name) > 0 /\ toLowerCaseTok(file.name[Len(file.name)]) = ".zip"
Contributes(file) ==
  IF IsArchive(file)
    THEN LET Test(en) == ~en.dir /\ HasSupportedExtension(en.name)
             kept == SelectSeq(file.entries, Test)
         IN [j \in 1..Len(kept) |-> kept[j].name]
    ELSE IF HasSupportedExtension(file.name) THEN <<file.name>> ELSE <<>>
RECURSIVE Documents(_, _)
Documents(files, upto) ==
  IF upto = 0 THEN <<>> ELSE Documents(files, upto - 1) \o Contributes(files[upto])

\* The names of the documents of a list.
Names(docs) == [j \in 1..Len(docs) |-> docs[j].name]

\* Every list of up to MaxInputLen input files, archives between plain
\* files included.
MaxInputLen == 3
ExpansionInputs ==
  UNION {[1..n -> {FA, FA2, FB, FTxt, ZipOk}] : n \in 0..MaxInputLen}

\* ExpandFiles yields the expected documents on every list of ExpansionInputs.
ExpansionAgrees ==
  /\ \A files \in ExpansionInputs :
       Names(ExpandFiles(files)) = Documents(files, Len(files))
  /\ Names(ExpandFiles(<<FB, ZipOk, FA2>>))
       = << <<"b", ".docx">>, <<"resume1", ".pdf">>, <<"resume2", ".docx">>,
            <<"a2", ".PDF">> >>

\* C18: the document list made from an input file list whose archives all
\* open holds exactly the supported non-directory entries of each archive
\* and the supported non-archive files, in outer-file order then entry
\* order, for every input list of up to MaxInputLen files and for the list
\* of every run; an archive with resume1.pdf, a directory, notes.txt and
\* resume2.docx yields two documents.
C18_ArchiveExpansion ==
  /\ ExpansionAgrees
  /\ \A r \in Runs :
       runs[r].pc \in {"extracting", "pacing", "completed", "aborted"}
         => /\ Names(runs[r].allFiles) = Documents(runs[r].files, Len(runs[r].files))
            /\ runs[r].files = <<ZipOk, FTxt>>
                 => Names(runs[r].allFiles)
                      = << <<"resume1", ".pdf">>, <<"resume2", ".docx">> >>

\* The archive was expanded and its second document is being analysed.
C18_Witness ==
  \E r \in Runs :
    /\ runs[r].files = <<ZipOk, FTxt>>
    /\ runs[r].pc = "extracting"
    /\ runs[r].i = 2
    /\ Len(runs[r].allFiles) = 2

\* C19 (as stated): at every point no two profiles of the ProfileSet have the
\* same id.
C19_IdUniqueness ==
  \A a, b \in 1..Len(resumes) : a # b => resumes[a].id # resumes[b].id

\* The pacing waits a run or pass has begun, set against the items it has
\* started: one behind every started item but the current one, one more
\* while it is waiting; none after the last item or after a failed one.
PacedBetweenItems(pc, started, paced, i, length, working) ==
  /\ pc = working => paced = started - 1
  /\ pc = "pacing" => paced = started /\ i < length
  /\ pc = "completed" => paced = length - (IF length = 0 THEN 0 ELSE 1)
  /\ pc = "aborted" => paced = started - 1

\* C20: in an ingestion run and in a match pass exactly one pacing wait of
\* PacingDelay lies between the end of item i and the start of item i + 1,
\* for every i < n, duplicates included: an item after the first starts only
\* out of a pacing wait begun when the item before ended, no sooner than
\* PacingDelay after that; and no pacing wait follows the last item or a
\* failed item.
C20_Pacing ==
  /\ [](/\ \A r \in Runs :
             PacedBetweenItems(runs[r].pc, Len(runs[r].attempted), runs[r].paced,
                               runs[r].i, Len(runs[r].allFiles), "extracting")
        /\ \A m \in Passes :
             PacedBetweenItems(passes[m].pc, Len(passes[m].scoreCalls), passes[m].paced,
                               passes[m].i, Len(passes[m].resumes), "scoring"))
  /\ [][/\ \A r \in Runs :
             (Len(runs[r].attempted) >= 1 /\ runs'[r].attempted # runs[r].attempted)
               => /\ runs[r].pc = "pacing"
                  /\ now' >= runs[r].timer + PacingDelay
        /\ \A r \in Runs :
             (runs[r].pc = "extracting" /\ runs'[r].pc = "pacing")
               => /\ runs'[r].timer = now'
                  /\ runs'[r].paced = runs[r].paced + 1
        /\ \A m \in Passes :
             (Len(passes[m].scoreCalls) >= 1 /\ passes'[m].scoreCalls # passes[m].scoreCalls)
               => /\ passes[m].pc = "pacing"
                  /\ now' >= passes[m].timer + PacingDelay
        /\ \A m \in Passes :
             (passes[m].pc = "scoring" /\ passes'[m].pc = "pacing")
               => /\ passes'[m].timer = now'
                  /\ passes'[m].paced = passes[m].paced + 1]_vars

\* The second of three documents was a duplicate, a wait followed it all the
\* same, and the third is being analysed a second later.
C20_Witness ==
  \E r \in Runs :
    /\ runs[r].files = <<FA, FA2, FB>>
    /\ runs[r].pc = "extracting"
    /\ runs[r].i = 3
    /\ runs[r].appended = <<1>>
    /\ runs[r].paced = 2
    /\ now >= 2 * PacingDelay

\* The object URLs created so far: createObjectURL hands out 1, 2, ...
CreatedUrls == 1..created

\* C21: every object URL created during extraction, those of profiles dropped
\* as duplicates included, is in the tracked list until it is revoked, and
\* only created URLs are tracked or revoked; a step that starts an ingestion
\* run leaves every URL created so far revoked and the tracked list empty;
\* and no profile of the ProfileSet refers to a revoked URL.
C21_BlobUrlsReleased ==
  /\ [](/\ \A u \in CreatedUrls : u \in Range(blobUrls) \/ u \in revoked
        /\ Range(blobUrls) \cup revoked \subseteq CreatedUrls
        /\ Range(blobUrls) \cap revoked = {}
        /\ \A r \in Runs : Len(runs[r].extracted) <= created
        /\ \A k \in 1..Len(resumes) :
             /\ resumes[k].fileURL \in CreatedUrls
             /\ resumes[k].fileURL \notin revoked)
  /\ [][\A r \in Runs :
          (runs[r].pc = "idle" /\ runs'[r].pc \notin {"idle", "blocked"})
            => /\ revoked' = CreatedUrls
               /\ blobUrls' = <<>>
               /\ resumes' = <<>>]_vars

\* A first run extracted two documents, the second a duplicate of the first,
\* and a new run has revoked both URLs.
C21_Witness ==
  /\ runs[1].pc = "completed"
  /\ Len(runs[1].extracted) = 2
  /\ runs[1].appended = <<1>>
  /\ runs[2].pc # "idle"
  /\ {1, 2} \subseteq revoked

\* The progress signal "processing i of n" of an ingestion run and of a
\* match pass, as the presentation layer reads it from statusMessage.
Processing(kind, i, n) == [kind |-> kind, a |-> i, b |-> n]

\* C22: the progress signals of a run or pass are emitted in the order
\* i = 1, 2, ... with the total n fixed from the first: each step in which a
\* run starts an item shows "processing i of n" for the item after the one
\* it showed last and for the run's unchanged total, and while the run is
\* in its loop with no other run or pass overlapping, the status shown is
\* that of the item it is at.
C22_ProgressOrdering ==
  /\ [](/\ \A r \in Runs :
             (runs[r].pc \in {"extracting", "pacing"} /\ ~overlapped)
               => statusMessage
                    = Processing("analyzingStatus", runs[r].i, Len(runs[r].allFiles))
        /\ \A m \in Passes :
             (passes[m].pc \in {"scoring", "pacing"} /\ ~overlapped)
               => statusMessage
                    = Processing("matchingStatus", passes[m].i, Len(passes[m].resumes)))
  /\ [][/\ \A r \in Runs :
             runs'[r].attempted # runs[r].attempted
               => /\ runs'[r].attempted = Append(runs[r].attempted, Len(runs[r].attempted) + 1)
                  /\ runs'[r].i = Len(runs'[r].attempted)
                  /\ runs'[r].i <= Len(runs'[r].allFiles)
                  /\ runs[r].attempted # <<>> => runs'[r].allFiles = runs[r].allFiles
                  /\ statusMessage'
                       = Processing("analyzingStatus", runs'[r].i, Len(runs'[r].allFiles))
        /\ \A m \in Passes :
             passes'[m].scoreCalls # passes[m].scoreCalls
               => /\ passes'[m].scoreCalls
                       = Append(passes[m].scoreCalls, Len(passes[m].scoreCalls) + 1)
                  /\ passes'[m].i = Len(passes'[m].scoreCalls)
                  /\ passes'[m].i <= Len(passes'[m].resumes)
                  /\ passes[m].scoreCalls # <<>> => passes'[m].resumes = passes[m].resumes
                  /\ statusMessage'
                       = Processing("matchingStatus", passes'[m].i, Len(passes'[m].resumes))
        /\ \A r \in Runs :
             (runs[r].pc \in {"extracting", "pacing"} /\ runs'[r].pc \in {"extracting", "pacing"})
               => runs'[r].i \in {runs[r].i, runs[r].i + 1}]_vars

\* "processing 3 of 3" is shown by a run that nothing overlapped.
C22_Witness ==
  \E r \in Runs :
    /\ ~overlapped
    /\ runs[r].pc = "extracting"
    /\ runs[r].attempted = <<1, 2, 3>>
    /\ statusMessage = Processing("analyzingStatus", 3, 3)

\* C23: a match pass takes the ProfileSet as it stands when the pass starts;
\* a pass that completes has issued one scoring request for each of those
\* profiles, in their order at the start, none skipped and none twice; and
\* when nothing overlapped it, the ProfileSet at completion holds the same
\* profiles, each once, unchanged but for matchScore, which is the score its
\* own request returned, whatever score it carried before.
C23_ExactlyOnceScoring ==
  [][\A m \in Passes :
       /\ (passes[m].pc = "idle" /\ passes'[m].pc # "idle")
            => passes'[m].resumes = resumes
       /\ (passes[m].pc # "completed" /\ passes'[m].pc = "completed")
            => LET before == passes'[m].resumes
                   n      == Len(before)
               IN /\ passes'[m].scoreCalls = UpTo(n)
                  /\ Len(passes'[m].assigned) = n
                  /\ ~overlapped'
                       => /\ Len(resumes') = n
                          /\ \A j \in 1..n :
                               \E k \in 1..n :
                                 /\ resumes'[k]
                                      = [before[j] EXCEPT !.matchScore = passes'[m].assigned[j]]
                                 /\ \A k2 \in 1..n :
                                      resumes'[k2].id = before[j].id => k2 = k]_vars

\* A second pass over two profiles completed: the profile that led with 90
\* was asked for first, got 40 and now stands behind the other.
C23_Witness ==
  /\ ~overlapped
  /\ passes[2].pc = "completed"
  /\ Len(passes[2].resumes) = 2
  /\ passes[2].resumes[1].matchScore = <<90>>
  /\ passes[2].assigned = << <<40>>, <<90>> >>
  /\ Len(resumes) = 2
  /\ resumes[2].id = passes[2].resumes[1].id
  /\ resumes[2].matchScore = <<40>>

\* C24 (as stated): in every reachable state isLoading is true exactly when
\* some ingestion run or match pass is active, started and neither completed
\* nor aborted; so the match button is never enabled while an ingestion run
\* is active.
C24_LoadingTracksActivity ==
  /\ isLoading <=> AnyActive
  /\ (\E r \in Runs : ActiveRun(r)) => ~MatchButtonEnabled

====
